---- MODULE Spec2Model ----
(***************************************************************************)
(* Plane control plane: the drone executor (per-backend state machine and  *)
(* signal multiplexer), the controller's drone liveness index, and the     *)
(* schedule request handler.                                               *)
(*                                                                         *)
(*   Spec      : the executor  (drone/src/agent/executor.rs)               *)
(*   SchedSpec : the liveness index (controller/src/scheduler.rs)          *)
(*   RpcSpec   : the schedule request handler around the index             *)
(*   PairSpec  : sequences of heartbeats on the index                      *)
(*   ResumeSpec: the executor with restarts of the drone process           *)
(*   StoreSpec : the executor on a local store whose writes can fail       *)
(*   IdleSpec  : the idle loop of a Ready backend's step                   *)
(*   LiveSpec  : the executor with an engine whose calls all succeed       *)
(*   StatsSpec : the container stats stream (docker/util.rs)               *)
(***************************************************************************)
EXTENDS Integers, Sequences, FiniteSets, TLC

(***************************************************************************)
(* Bounds of the model.                                                    *)
(***************************************************************************)
MaxTasks == 2
MaxKills == 2
MaxInterrupts == 1

Backends == {"b1", "b2"}
Tasks == 1..MaxTasks
NoTask == 0
NoBackend == "-"

(***************************************************************************)
(* BackendState and its predicates.                                        *)
(***************************************************************************)
BackendState ==
  {"Loading", "Starting", "Ready", "ErrorLoading", "ErrorStarting",
   "TimedOutBeforeReady", "Failed", "Exited", "Swept", "Terminated"}

running(s) == s \in {"Starting", "Ready"}

Terminal ==
  {"ErrorLoading", "ErrorStarting", "TimedOutBeforeReady", "Failed",
   "Exited", "Swept", "Terminated"}

EngineBackendStatus ==
  {"Loading", "Starting", "Running", "Failed", "Exited", "Terminated"}

(***************************************************************************)
(* What the engine, the port probe and the local store answer during one   *)
(* call of step: every field is an input of the step.                      *)
(***************************************************************************)
EngineAnswers ==
  [load : {"ok", "err"},
   status : EngineBackendStatus \cup {"err"},
   port : {"ok", "err"},
   route : {"ok", "err"},
   idle : {"elapsed", "err"},
   stop : {"ok", "err"}]

Some(s) == [kind |-> "some", st |-> s]
None == [kind |-> "none", st |-> "-"]
Err == [kind |-> "err", st |-> "-"]

\* step that polls again, staying in Starting, while the engine reports the
\* backend as not yet running.
step_starting_retry(s, e) ==
  CASE s = "Loading" ->
         IF e.load = "err" THEN Err ELSE Some("Starting")
    [] s = "Starting" ->
         IF e.status = "err" THEN Err
         ELSE IF e.status \in {"Loading", "Starting"} THEN Some("Starting")
         ELSE IF e.status # "Running" THEN Some("ErrorStarting")
         ELSE IF e.port = "err" THEN Err
         ELSE IF e.route = "err" THEN Err
         ELSE Some("Ready")
    [] s = "Ready" ->
         IF e.status = "err" THEN Err
         ELSE IF e.status = "Failed" THEN Some("Failed")
         ELSE IF e.status = "Exited" THEN Some("Exited")
         ELSE IF e.status = "Terminated" THEN Some("Swept")
         ELSE IF e.idle = "err" THEN Err
         ELSE Some("Swept")
    [] OTHER ->
         IF e.stop = "err" THEN Err ELSE None

\* step that maps the engine status Terminated of a Ready backend to the
\* state Terminated.
step_terminated(s, e) ==
  CASE s = "Loading" ->
         IF e.load = "err" THEN Err ELSE Some("Starting")
    [] s = "Starting" ->
         IF e.status = "err" THEN Err
         ELSE IF e.status # "Running" THEN Some("ErrorStarting")
         ELSE IF e.port = "err" THEN Err
         ELSE IF e.route = "err" THEN Err
         ELSE Some("Ready")
    [] s = "Ready" ->
         IF e.status = "err" THEN Err
         ELSE IF e.status = "Failed" THEN Some("Failed")
         ELSE IF e.status = "Exited" THEN Some("Exited")
         ELSE IF e.status = "Terminated" THEN Some("Terminated")
         ELSE IF e.idle = "err" THEN Err
         ELSE Some("Swept")
    [] OTHER ->
         IF e.stop = "err" THEN Err ELSE None

\* step that goes on to Ready when the insert of the proxy route failed.
step_route_ignored(s, e) ==
  CASE s = "Loading" ->
         IF e.load = "err" THEN Err ELSE Some("Starting")
    [] s = "Starting" ->
         IF e.status = "err" THEN Err
         ELSE IF e.status # "Running" THEN Some("ErrorStarting")
         ELSE IF e.port = "err" THEN Err
         ELSE Some("Ready")
    [] s = "Ready" ->
         IF e.status = "err" THEN Err
         ELSE IF e.status = "Failed" THEN Some("Failed")
         ELSE IF e.status = "Exited" THEN Some("Exited")
         ELSE IF e.status = "Terminated" THEN Some("Swept")
         ELSE IF e.idle = "err" THEN Err
         ELSE Some("Swept")
    [] OTHER ->
         IF e.stop = "err" THEN Err ELSE None

\* Executor::step: Result<Option<BackendState>> for a state and the answers.
step(s, e) ==
  CASE s = "Loading" ->
         IF e.load = "err" THEN Err ELSE Some("Starting")
    [] s = "Starting" ->
         IF e.status = "err" THEN Err
         ELSE IF e.status # "Running" THEN Some("ErrorStarting")
         ELSE IF e.port = "err" THEN Err
         ELSE IF e.route = "err" THEN Err
         ELSE Some("Ready")
    [] s = "Ready" ->
         IF e.status = "err" THEN Err
         ELSE IF e.status = "Failed" THEN Some("Failed")
         ELSE IF e.status = "Exited" THEN Some("Exited")
         ELSE IF e.status = "Terminated" THEN Some("Swept")
         ELSE IF e.idle = "err" THEN Err
         ELSE Some("Swept")
    [] OTHER ->
         IF e.stop = "err" THEN Err ELSE None

\* The results step can return in a state, over all answers of the engine.
StepResults == [s \in BackendState |-> {step(s, e) : e \in EngineAnswers}]

\* step, lines 319-333: insert_proxy_route is reached and succeeds.  Only
\* steps that return are followed; a step abandoned by select! is not.
inserts_route(s, e) ==
  /\ s = "Starting"
  /\ e.status = "Running"
  /\ e.port = "ok"
  /\ e.route = "ok"

\* What a step can return in a state, with what it did to the routes.
StepEffects ==
  [s \in BackendState |->
     {[res |-> step(s, e), route |-> inserts_route(s, e)] :
        e \in EngineAnswers}]

VARIABLES
  pc,          \* task -> where the task is in start_backend / run_backend
  bk,          \* task -> the backend id of its spawn request
  state,       \* task -> the local variable `state` of run_backend
  chan,        \* task -> the one slot of its channel: Empty or a Signal
  blocked,     \* task -> kill_backend calls waiting in send on its channel
  listener,    \* backend_to_listener: backend -> task whose sender is stored
  monitor,     \* backend_to_monitor: backend -> task that installed it
  db,          \* local store: backend -> stored state
  pubs,        \* task -> states the task published on backend.<B>.state
  stopCalls,   \* task -> engine.stop invocations made by the task
  killOk,      \* task -> kill_backend calls that returned Ok on its channel
  termRecv,    \* task -> Terminate signals the run loop received
  kills,       \* kill_backend calls made
  interrupts,  \* container events seen
  lastKill,    \* the last kill_backend call: its backend and what it did
  from,        \* task -> how it was spawned, and the state it started in
  restarts,    \* restarts of the drone process
  plan,        \* what step returns in each state, when the engine is fixed
  loadCalls,   \* task -> engine.load invocations made by the task
  lastEvent,   \* the last try_send error logged for a container event
  routes,      \* local store: backends that have a proxy route
  idle,        \* the idle loop of one Ready step, and the clock it reads
  stats,       \* one StatsStream, its input stream and the task that polls it
  last_status, \* Scheduler.last_status: cluster -> its drone map, if it has one
  lastHb,      \* (cluster, drone) -> the last heartbeat received for the pair
  result,      \* the last schedule call made since the index last changed
  start,       \* the index as it was before the heartbeats of trail
  trail,       \* the heartbeats followed since start, in order of receipt
  rpc,         \* schedule request -> how far the scheduler is with it
  spawns,      \* the SpawnRequests the scheduler has sent, in order
  replies      \* schedule request -> the replies sent to its client

execVars ==
  <<pc, bk, state, chan, blocked, listener, monitor, db, pubs, stopCalls,
    killOk, termRecv, kills, interrupts, lastKill, from, restarts, plan,
    loadCalls, lastEvent, routes, idle, stats>>

resumeVars == <<from, restarts, plan, loadCalls>>

auxVars == <<lastEvent, routes, idle, stats>>

indexVars == <<last_status, lastHb>>

pairVars == <<start, trail>>

schedVars == <<indexVars, result, pairVars>>

rpcVars == <<rpc, spawns, replies>>

vars == <<execVars, schedVars, rpcVars>>

\* How a task was spawned: by start_backend, always in Loading, or by
\* resume_backends in the stored state.
NoOrigin == [by |-> "-", st |-> "-", after_lost |-> FALSE]
Started == [by |-> "start_backend", st |-> "Loading", after_lost |-> FALSE]

NoKill == [backend |-> NoBackend, result |-> "-"]

NoEvent == [backend |-> NoBackend, result |-> "-"]

\* last: None.
NoStats == -1

\* StatsStream::new, lines 172-178, on an input that has delivered nothing,
\* with the task that consumes the stream about to poll it.
StatsNew ==
  [src |-> <<>>, closed |-> FALSE, taken |-> 0, last |-> NoStats,
   out |-> <<>>, ended |-> FALSE, waker |-> FALSE, woken |-> TRUE]

\* No Ready step is followed through its idle loop.
IdleOff ==
  [pc |-> "off", now |-> 0, last_active |-> 0, max_idle |-> 0,
   read |-> 0, next_check |-> 0, checked_at |-> 0, wake |-> 0]

(***************************************************************************)
(* Executor::new on a fresh drone: both maps empty, no task, empty store.   *)
(***************************************************************************)
InitExec ==
  /\ pc = [t \in Tasks |-> "idle"]
  /\ bk = [t \in Tasks |-> NoBackend]
  /\ state = [t \in Tasks |-> "Loading"]
  /\ chan = [t \in Tasks |-> "Empty"]
  /\ blocked = [t \in Tasks |-> 0]
  /\ listener = [b \in Backends |-> NoTask]
  /\ monitor = [b \in Backends |-> NoTask]
  /\ db = [b \in Backends |-> "none"]
  /\ pubs = [t \in Tasks |-> <<>>]
  /\ stopCalls = [t \in Tasks |-> 0]
  /\ killOk = [t \in Tasks |-> 0]
  /\ termRecv = [t \in Tasks |-> 0]
  /\ kills = 0
  /\ interrupts = 0
  /\ lastKill = NoKill
  /\ from = [t \in Tasks |-> NoOrigin]
  /\ restarts = 0
  /\ loadCalls = [t \in Tasks |-> 0]
  /\ lastEvent = NoEvent
  /\ routes = {}
  /\ stats = StatsNew

IdleTasks == {t \in Tasks : pc[t] = "idle"}
FirstIdle == CHOOSE t \in IdleTasks : \A u \in IdleTasks : t <= u

\* A DashMap Ref on the entry of b is held by a kill_backend waiting in send.
RefHeld(b) == listener[b] # NoTask /\ blocked[listener[b]] > 0

\* The outcomes of a write to the local store: a faulty store can refuse
\* a write, any other store takes every write.
WriteOutcomes == IF plan.store = "faulty" THEN BOOLEAN ELSE {TRUE}

\* database.insert_backend / update_backend_state followed by log_error: a
\* write that fails leaves the store as it was and the caller goes on.
StoreWrite(b, s, ok) == IF ok THEN [db EXCEPT ![b] = s] ELSE db

(***************************************************************************)
(* start_backend, lines 129-142: insert_backend, publish Loading.  The     *)
(* sender is not in the map yet: run_backend inserts it.                   *)
(***************************************************************************)
StartBackend(b) ==
  /\ IdleTasks # {}
  /\ LET t == FirstIdle IN
       /\ pc' = [pc EXCEPT ![t] = "init"]
       /\ bk' = [bk EXCEPT ![t] = b]
       /\ state' = [state EXCEPT ![t] = "Loading"]
       /\ \E ok \in WriteOutcomes : db' = StoreWrite(b, "Loading", ok)
       /\ pubs' = [pubs EXCEPT ![t] = <<"Loading">>]
       /\ from' = [from EXCEPT ![t] = Started]
  /\ UNCHANGED <<chan, blocked, listener, monitor, stopCalls, killOk,
                 termRecv, kills, interrupts>>
  /\ UNCHANGED <<schedVars, rpcVars, restarts, plan, loadCalls, lastKill,
                 auxVars>>

(***************************************************************************)
(* run_backend, lines 194-196: create the channel and store its sender.    *)
(* DashMap::insert takes the entry's write lock, so it waits while a Ref   *)
(* is held; the sender it replaces is dropped.                             *)
(***************************************************************************)
RunBackendInit(t) ==
  /\ pc[t] = "init"
  /\ ~RefHeld(bk[t])
  /\ listener' = [listener EXCEPT ![bk[t]] = t]
  /\ pc' = [pc EXCEPT ![t] = "loop"]
  /\ UNCHANGED <<bk, state, chan, blocked, monitor, db, pubs, stopCalls,
                 killOk, termRecv, kills, interrupts>>
  /\ UNCHANGED <<schedVars, rpcVars, resumeVars, lastKill, auxVars>>

(***************************************************************************)
(* The step future is polled for the first time: a terminal state's step   *)
(* invokes engine.stop, the step of Loading invokes engine.load.           *)
(***************************************************************************)
BeginStep(t) ==
  /\ pc[t] = "loop"
  /\ pc' = [pc EXCEPT ![t] = "stepping"]
  /\ stopCalls' = [stopCalls EXCEPT ![t] =
                     IF state[t] \in Terminal THEN @ + 1 ELSE @]
  /\ loadCalls' = [loadCalls EXCEPT ![t] =
                     IF state[t] = "Loading" THEN @ + 1 ELSE @]
  /\ UNCHANGED <<bk, state, chan, blocked, listener, monitor, db, pubs,
                 killOk, termRecv, kills, interrupts>>
  /\ UNCHANGED <<schedVars, rpcVars, from, restarts, plan, lastKill,
                 auxVars>>

\* The handling of next_state with an error state for every state: an error
\* in Starting is persisted and published as ErrorStarting.
HandleNextErrorStarting(t, res, ok) ==
  LET b == bk[t] IN
  CASE res.kind = "some" ->
         /\ state' = [state EXCEPT ![t] = res.st]
         /\ monitor' = IF running(res.st)
                       THEN [monitor EXCEPT ![b] = t] ELSE monitor
         /\ db' = StoreWrite(b, res.st, ok)
         /\ pubs' = [pubs EXCEPT ![t] = Append(@, res.st)]
         /\ pc' = [pc EXCEPT ![t] = "loop"]
    [] res.kind = "none" ->
         /\ monitor' = [monitor EXCEPT ![b] = NoTask]
         /\ pc' = [pc EXCEPT ![t] = "rm_listener"]
         /\ UNCHANGED <<state, db, pubs>>
    [] OTHER ->
         /\ IF state[t] \in {"Loading", "Starting"}
            THEN LET error == IF state[t] = "Loading" THEN "ErrorLoading"
                              ELSE "ErrorStarting" IN
                 /\ state' = [state EXCEPT ![t] = error]
                 /\ db' = StoreWrite(b, error, ok)
                 /\ pubs' = [pubs EXCEPT ![t] = Append(@, error)]
            ELSE UNCHANGED <<state, db, pubs>>
         /\ monitor' = [monitor EXCEPT ![b] = NoTask]
         /\ pc' = [pc EXCEPT ![t] = "rm_listener"]

(***************************************************************************)
(* run_backend, lines 238-281: what the loop does with next_state.         *)
(***************************************************************************)
HandleNext(t, res, ok) ==
  LET b == bk[t] IN
  CASE res.kind = "some" ->
         /\ state' = [state EXCEPT ![t] = res.st]
         /\ monitor' = IF running(res.st)
                       THEN [monitor EXCEPT ![b] = t] ELSE monitor
         /\ db' = StoreWrite(b, res.st, ok)
         /\ pubs' = [pubs EXCEPT ![t] = Append(@, res.st)]
         /\ pc' = [pc EXCEPT ![t] = "loop"]
    [] res.kind = "none" ->
         /\ monitor' = [monitor EXCEPT ![b] = NoTask]
         /\ pc' = [pc EXCEPT ![t] = "rm_listener"]
         /\ UNCHANGED <<state, db, pubs>>
    [] OTHER ->
         /\ IF state[t] = "Loading"
            THEN /\ state' = [state EXCEPT ![t] = "ErrorLoading"]
                 /\ db' = StoreWrite(b, "ErrorLoading", ok)
                 /\ pubs' = [pubs EXCEPT ![t] = Append(@, "ErrorLoading")]
            ELSE UNCHANGED <<state, db, pubs>>
         /\ monitor' = [monitor EXCEPT ![b] = NoTask]
         /\ pc' = [pc EXCEPT ![t] = "rm_listener"]

\* select!, line 220: the step returns first.
StepDone(t) ==
  /\ pc[t] = "stepping"
  /\ \E eff \in StepEffects[state[t]], ok \in WriteOutcomes :
       /\ HandleNext(t, eff.res, ok)
       /\ routes' = IF eff.route THEN routes \cup {bk[t]} ELSE routes
  /\ UNCHANGED <<bk, chan, blocked, listener, stopCalls, killOk, termRecv,
                 kills, interrupts>>
  /\ UNCHANGED <<schedVars, rpcVars, resumeVars, lastKill, lastEvent, idle,
                 stats>>

\* The sender of task t's channel is the map entry of its backend, if any.
SenderAlive(t) == listener[bk[t]] = t

\* The Interrupt branch taken in Swept as in any other state.
RecvInterruptInSwept(t) ==
  /\ pc[t] \in {"loop", "stepping"}
  /\ chan[t] = "Interrupt"
  /\ chan' = [chan EXCEPT ![t] = "Empty"]
  /\ pc' = [pc EXCEPT ![t] = "loop"]
  /\ UNCHANGED <<bk, state, blocked, listener, monitor, db, pubs, stopCalls,
                 killOk, termRecv, kills, interrupts>>
  /\ UNCHANGED <<schedVars, rpcVars, resumeVars, lastKill, auxVars>>

(***************************************************************************)
(* select!, lines 221-233: recv returns first.  In Swept the channel is    *)
(* not polled.  select! polls its branches in random order, so a pending   *)
(* signal can win before the step was polled at all.                       *)
(***************************************************************************)
RecvInterrupt(t) ==
  /\ pc[t] \in {"loop", "stepping"}
  /\ state[t] # "Swept"
  /\ chan[t] = "Interrupt"
  /\ chan' = [chan EXCEPT ![t] = "Empty"]
  /\ pc' = [pc EXCEPT ![t] = "loop"]
  /\ UNCHANGED <<bk, state, blocked, listener, monitor, db, pubs, stopCalls,
                 killOk, termRecv, kills, interrupts>>
  /\ UNCHANGED <<schedVars, rpcVars, resumeVars, lastKill, auxVars>>

RecvTerminate(t) ==
  /\ pc[t] \in {"loop", "stepping"}
  /\ state[t] # "Swept"
  /\ chan[t] = "Terminate"
  /\ chan' = [chan EXCEPT ![t] = "Empty"]
  /\ termRecv' = [termRecv EXCEPT ![t] = @ + 1]
  /\ \E ok \in WriteOutcomes : HandleNext(t, Some("Terminated"), ok)
  /\ UNCHANGED <<bk, blocked, listener, stopCalls, killOk, kills,
                 interrupts>>
  /\ UNCHANGED <<schedVars, rpcVars, resumeVars, lastKill, auxVars>>

\* A lost sender after which Terminated is persisted and published before
\* the task ends.
RecvNoneTerminates(t) ==
  /\ pc[t] \in {"loop", "stepping"}
  /\ state[t] # "Swept"
  /\ chan[t] = "Empty"
  /\ listener[bk[t]] # t
  /\ pc' = [pc EXCEPT ![t] = "lost"]
  /\ state' = [state EXCEPT ![t] = "Terminated"]
  /\ db' = StoreWrite(bk[t], "Terminated", TRUE)
  /\ pubs' = [pubs EXCEPT ![t] = Append(@, "Terminated")]
  /\ UNCHANGED <<bk, chan, blocked, listener, monitor, stopCalls, killOk,
                 termRecv, kills, interrupts>>
  /\ UNCHANGED <<schedVars, rpcVars, resumeVars, lastKill, auxVars>>

\* recv yields None: the slot is empty and the sender was dropped.
RecvNone(t) ==
  /\ pc[t] \in {"loop", "stepping"}
  /\ state[t] # "Swept"
  /\ chan[t] = "Empty"
  /\ ~SenderAlive(t)
  /\ pc' = [pc EXCEPT ![t] = "lost"]
  /\ UNCHANGED <<bk, state, chan, blocked, listener, monitor, db, pubs,
                 stopCalls, killOk, termRecv, kills, interrupts>>
  /\ UNCHANGED <<schedVars, rpcVars, resumeVars, lastKill, auxVars>>

(***************************************************************************)
(* run_backend, line 281: backend_to_listener.remove, which takes the      *)
(* entry's write lock and so waits while a Ref on it is held.              *)
(***************************************************************************)
RemoveListener(t) ==
  /\ pc[t] = "rm_listener"
  /\ ~RefHeld(bk[t])
  /\ listener' = [listener EXCEPT ![bk[t]] = NoTask]
  /\ pc' = [pc EXCEPT ![t] = "done"]
  /\ UNCHANGED <<bk, state, chan, blocked, monitor, db, pubs, stopCalls,
                 killOk, termRecv, kills, interrupts>>
  /\ UNCHANGED <<schedVars, rpcVars, resumeVars, lastKill, auxVars>>

\* A permit of the channel is free: the slot is empty and no send waits.
HasPermit(t) == chan[t] = "Empty" /\ blocked[t] = 0

\* kill_backend with try_send in place of send: without a free permit the
\* Terminate is dropped and the call still returns Ok.
KillBackendTrySend(b) ==
  /\ kills < MaxKills
  /\ kills' = kills + 1
  /\ lastKill' = [backend |-> b,
                  result |-> IF listener[b] = NoTask THEN "Unknown"
                             ELSE "Sent"]
  /\ IF listener[b] = NoTask
     THEN UNCHANGED <<chan, killOk, blocked>>
     ELSE LET t == listener[b] IN
          /\ chan' = IF HasPermit(t) THEN [chan EXCEPT ![t] = "Terminate"]
                     ELSE chan
          /\ killOk' = [killOk EXCEPT ![t] = @ + 1]
          /\ UNCHANGED blocked
  /\ UNCHANGED <<pc, bk, state, listener, monitor, db, pubs, stopCalls,
                 termRecv, interrupts>>
  /\ UNCHANGED <<schedVars, rpcVars, resumeVars, auxVars>>

\* kill_backend that, without an entry for the backend, sends the Terminate
\* through the sender of another backend.
KillBackendAnySender(b) ==
  /\ kills < MaxKills
  /\ kills' = kills + 1
  /\ lastKill' = [backend |-> b,
                  result |-> IF listener[b] = NoTask THEN "Unknown"
                             ELSE "Sent"]
  /\ LET targets == IF listener[b] # NoTask THEN {listener[b]}
                    ELSE {listener[x] : x \in Backends} \ {NoTask} IN
       IF targets = {}
       THEN UNCHANGED <<chan, killOk, blocked>>
       ELSE \E t \in targets :
              IF HasPermit(t)
              THEN /\ chan' = [chan EXCEPT ![t] = "Terminate"]
                   /\ killOk' = [killOk EXCEPT ![t] = @ + 1]
                   /\ UNCHANGED blocked
              ELSE /\ blocked' = [blocked EXCEPT ![t] = @ + 1]
                   /\ UNCHANGED <<chan, killOk>>
  /\ UNCHANGED <<pc, bk, state, listener, monitor, db, pubs, stopCalls,
                 termRecv, interrupts>>
  /\ UNCHANGED <<schedVars, rpcVars, resumeVars, auxVars>>

(***************************************************************************)
(* kill_backend: get the entry, send(Terminate).await while holding the    *)
(* Ref.  With a free permit the send completes at once; otherwise the      *)
(* call waits.                                                             *)
(***************************************************************************)
KillBackend(b) ==
  /\ kills < MaxKills
  /\ kills' = kills + 1
  /\ lastKill' = [backend |-> b,
                  result |-> IF listener[b] = NoTask THEN "Unknown"
                             ELSE "Sent"]
  /\ IF listener[b] = NoTask
     THEN UNCHANGED <<chan, killOk, blocked>>
     ELSE LET t == listener[b] IN
          IF HasPermit(t)
          THEN /\ chan' = [chan EXCEPT ![t] = "Terminate"]
               /\ killOk' = [killOk EXCEPT ![t] = @ + 1]
               /\ UNCHANGED blocked
          ELSE /\ blocked' = [blocked EXCEPT ![t] = @ + 1]
               /\ UNCHANGED <<chan, killOk>>
  /\ UNCHANGED <<pc, bk, state, listener, monitor, db, pubs, stopCalls,
                 termRecv, interrupts>>
  /\ UNCHANGED <<schedVars, rpcVars, resumeVars, auxVars>>

\* A waiting send gets the permit the receiver freed, and returns Ok.
KillSendCompletes(t) ==
  /\ blocked[t] > 0
  /\ chan[t] = "Empty"
  /\ chan' = [chan EXCEPT ![t] = "Terminate"]
  /\ blocked' = [blocked EXCEPT ![t] = @ - 1]
  /\ killOk' = [killOk EXCEPT ![t] = @ + 1]
  /\ UNCHANGED <<pc, bk, state, listener, monitor, db, pubs, stopCalls,
                 termRecv, kills, interrupts>>
  /\ UNCHANGED <<schedVars, rpcVars, resumeVars, lastKill, auxVars>>

\* listen_for_container_events, lines 123-124: what becomes of the event.
try_send(b) ==
  IF listener[b] = NoTask THEN "no listener"
  ELSE IF HasPermit(listener[b]) THEN "sent"
  ELSE "full"

\* A container event whose Interrupt takes the slot whatever it holds.
ContainerEventOverwrite(b) ==
  /\ interrupts < MaxInterrupts
  /\ interrupts' = interrupts + 1
  /\ chan' = IF listener[b] # NoTask
             THEN [chan EXCEPT ![listener[b]] = "Interrupt"]
             ELSE chan
  /\ lastEvent' = IF try_send(b) = "full"
                  THEN [backend |-> b, result |-> "full"]
                  ELSE lastEvent
  /\ UNCHANGED <<pc, bk, state, blocked, listener, monitor, db, pubs,
                 stopCalls, killOk, termRecv, kills>>
  /\ UNCHANGED <<schedVars, rpcVars, resumeVars, lastKill, routes, idle,
                 stats>>

(***************************************************************************)
(* listen_for_container_events: try_send(Interrupt) to the backend's       *)
(* sender; without an entry or without a free permit the event is dropped. *)
(***************************************************************************)
ContainerEvent(b) ==
  /\ interrupts < MaxInterrupts
  /\ interrupts' = interrupts + 1
  /\ chan' = IF listener[b] # NoTask /\ HasPermit(listener[b])
             THEN [chan EXCEPT ![listener[b]] = "Interrupt"]
             ELSE chan
  /\ lastEvent' = IF try_send(b) = "full"
                  THEN [backend |-> b, result |-> "full"]
                  ELSE lastEvent
  /\ UNCHANGED <<pc, bk, state, blocked, listener, monitor, db, pubs,
                 stopCalls, killOk, termRecv, kills>>
  /\ UNCHANGED <<schedVars, rpcVars, resumeVars, lastKill, routes, idle,
                 stats>>

(***************************************************************************)
(* Restart of the drone process and resume_backends.  The engine behaves   *)
(* the same before and after: step returns what plan says for the state.   *)
(***************************************************************************)
MaxRestarts == 1

Plans ==
  [Loading : StepResults["Loading"], Starting : StepResults["Starting"],
   Ready : StepResults["Ready"], stop : StepResults["Terminated"],
   store : {"ok"}]

PlanResult(p, s) == IF s \in Terminal THEN p.stop ELSE p[s]

\* select!, line 220: the step returns first, with the plan's result.
StepPlanned(t) ==
  /\ pc[t] = "stepping"
  /\ \E eff \in StepEffects[state[t]], ok \in WriteOutcomes :
       /\ eff.res = PlanResult(plan, state[t])
       /\ HandleNext(t, eff.res, ok)
       /\ routes' = IF eff.route THEN routes \cup {bk[t]} ELSE routes
  /\ UNCHANGED <<bk, chan, blocked, listener, stopCalls, killOk, termRecv,
                 kills, interrupts>>
  /\ UNCHANGED <<schedVars, rpcVars, resumeVars, lastKill, lastEvent, idle,
                 stats>>

\* database.get_backends(): the stored backends, in the order of the rows.
BackendOrder == <<"b1", "b2">>
get_backends == SelectSeq(BackendOrder, LAMBDA b : db[b] # "none")

\* The process restarts: every task and both maps are gone, the store is
\* kept.  Executor::new, then resume_backends: for every stored backend a
\* monitor entry if its state is running(), and a task spawned with
\* run_backend(spec, first[b]).
ResumeWith(first) ==
  LET backends == get_backends
      n == Len(backends)
      TaskOf(b) == CHOOSE t \in 1..n : backends[t] = b
  IN
  /\ restarts < MaxRestarts
  /\ restarts' = restarts + 1
  /\ pc' = [t \in Tasks |-> IF t <= n THEN "init" ELSE "idle"]
  /\ bk' = [t \in Tasks |-> IF t <= n THEN backends[t] ELSE NoBackend]
  /\ state' = [t \in Tasks |->
                 IF t <= n THEN first[backends[t]] ELSE "Loading"]
  /\ from' = [t \in Tasks |->
                IF t <= n
                THEN [by |-> "resume_backends", st |-> db[backends[t]],
                      after_lost |-> \E u \in Tasks :
                                       bk[u] = backends[t] /\ pc[u] = "lost"]
                ELSE NoOrigin]
  /\ monitor' = [b \in Backends |->
                   IF db[b] # "none" /\ running(db[b]) THEN TaskOf(b)
                   ELSE NoTask]
  /\ listener' = [b \in Backends |-> NoTask]
  /\ chan' = [t \in Tasks |-> "Empty"]
  /\ blocked' = [t \in Tasks |-> 0]
  /\ pubs' = [t \in Tasks |-> <<>>]
  /\ stopCalls' = [t \in Tasks |-> 0]
  /\ loadCalls' = [t \in Tasks |-> 0]
  /\ killOk' = [t \in Tasks |-> 0]
  /\ termRecv' = [t \in Tasks |-> 0]
  /\ UNCHANGED <<db, kills, interrupts, lastKill, plan, auxVars>>
  /\ UNCHANGED <<schedVars, rpcVars>>

\* resume_backends that starts every stored backend over, in Loading.
ResumeBackendsFromLoading == ResumeWith([b \in Backends |-> "Loading"])

ResumeBackends == ResumeWith(db)

ResumeNext ==
  \/ \E b \in Backends : StartBackend(b)
  \/ \E t \in Tasks : RunBackendInit(t)
  \/ \E t \in Tasks : BeginStep(t)
  \/ \E t \in Tasks : StepPlanned(t)
  \/ \E t \in Tasks : RecvNone(t)
  \/ \E t \in Tasks : RemoveListener(t)
  \/ ResumeBackends

ExecNext ==
  \/ \E b \in Backends : StartBackend(b)
  \/ \E t \in Tasks : RunBackendInit(t)
  \/ \E t \in Tasks : BeginStep(t)
  \/ \E t \in Tasks : StepDone(t)
  \/ \E t \in Tasks : RecvInterrupt(t)
  \/ \E t \in Tasks : RecvTerminate(t)
  \/ \E t \in Tasks : RecvNone(t)
  \/ \E t \in Tasks : RemoveListener(t)
  \/ \E b \in Backends : KillBackend(b)
  \/ \E t \in Tasks : KillSendCompletes(t)
  \/ \E b \in Backends : ContainerEvent(b)


(***************************************************************************)
(* The idle loop of step's Ready arm, lines 350-367, for one backend whose *)
(* engine status is Running.  Instants and durations are whole seconds;    *)
(* the clock and the recorded activity move while the loop runs.           *)
(***************************************************************************)
MaxClock == 4

\* The largest instant a DateTime holds.
MaxInstant == MaxClock + 2

\* spawn_request.max_idle_secs.
IdleSecs == {1, 2, MaxInstant}

IdleFrame ==
  UNCHANGED <<pc, bk, state, chan, blocked, listener, monitor, db, pubs,
              stopCalls, killOk, termRecv, kills, interrupts, lastKill,
              resumeVars, lastEvent, routes, stats, schedVars, rpcVars>>

\* Utc::now() moves on.
ClockTick ==
  /\ idle.pc \notin {"off", "swept", "err"}
  /\ idle.now < MaxClock
  /\ idle' = [idle EXCEPT !.now = @ + 1]
  /\ IdleFrame

\* The proxy records activity of the backend in the local store.
RecordActivity ==
  /\ idle.pc \notin {"off", "swept", "err"}
  /\ idle.last_active < idle.now
  /\ idle' = [idle EXCEPT !.last_active = idle.now]
  /\ IdleFrame

\* Lines 351-359: read last_active, add max_idle_secs with checked_add.
GetLastActive ==
  /\ idle.pc = "read"
  /\ idle' = IF idle.last_active + idle.max_idle > MaxInstant
             THEN [idle EXCEPT !.pc = "err", !.read = idle.last_active]
             ELSE [idle EXCEPT !.pc = "compare", !.read = idle.last_active,
                               !.next_check =
                                  idle.last_active + idle.max_idle]
  /\ IdleFrame

\* Line 361: if next_check < Utc::now() { break }.
CompareNextCheck ==
  /\ idle.pc = "compare"
  /\ idle' = [idle EXCEPT !.checked_at = idle.now,
                          !.pc = IF idle.next_check < idle.now
                                 THEN "swept" ELSE "duration"]
  /\ IdleFrame

\* Line 364: next_check.signed_duration_since(Utc::now()).to_std()?, with
\* the clock read again; a negative duration is an error.
SleepDuration ==
  /\ idle.pc = "duration"
  /\ idle' = IF idle.next_check - idle.now < 0
             THEN [idle EXCEPT !.pc = "err"]
             ELSE [idle EXCEPT !.pc = "sleep", !.wake = idle.next_check]
  /\ IdleFrame

\* Lines 364-365: the sleep is over, the loop starts again.
SleepReturns ==
  /\ idle.pc = "sleep"
  /\ idle.now >= idle.wake
  /\ idle' = [idle EXCEPT !.pc = "read"]
  /\ IdleFrame

IdleNext ==
  \/ ClockTick
  \/ RecordActivity
  \/ GetLastActive
  \/ CompareNextCheck
  \/ SleepDuration
  \/ SleepReturns

(***************************************************************************)
(* StatsStream, docker/util.rs lines 165-207: a stream of raw samples      *)
(* turned into a stream of messages, each made of two successive samples.  *)
(* The task that consumes the stream polls it when it is woken: by the     *)
(* waker the input stored when it returned Pending, after an item was      *)
(* returned to it, or by another future of the same task.                  *)
(***************************************************************************)
MaxSamples == 3

\* The raw samples, told apart by one number.
Stats == {0, 1}

\* BackendStatsMessage::from_stats_messages(backend_id, last, stat).
from_stats_messages(last, stat) == [prev |-> last, cur |-> stat]

StatsFrame ==
  UNCHANGED <<pc, bk, state, chan, blocked, listener, monitor, db, pubs,
              stopCalls, killOk, termRecv, kills, interrupts, lastKill,
              resumeVars, lastEvent, routes, idle, schedVars, rpcVars>>

\* The input has a sample ready; a stored waker is taken and called.
InputDelivers(stat) ==
  /\ ~stats.closed
  /\ Len(stats.src) < MaxSamples
  /\ stats' = [stats EXCEPT !.src = Append(@, stat),
                            !.woken = @ \/ stats.waker,
                            !.waker = FALSE]
  /\ StatsFrame

\* The input ends; a stored waker is taken and called.
InputEnds ==
  /\ ~stats.closed
  /\ stats' = [stats EXCEPT !.closed = TRUE,
                            !.woken = @ \/ stats.waker,
                            !.waker = FALSE]
  /\ StatsFrame

\* StatsStream::poll_next, lines 184-206, polled by the woken task.  The
\* input stores the waker only when it returns Pending (line 191); after
\* Ready(Some(v)) (line 199) the consumer polls again; the Pending of line
\* 202 follows a Ready of the input, so no waker is stored for it.
PollNext ==
  /\ stats.woken
  /\ ~stats.ended
  /\ IF stats.taken < Len(stats.src)
     THEN LET stat == stats.src[stats.taken + 1] IN
          IF stats.last # NoStats
          THEN stats' = [stats EXCEPT
                           !.taken = @ + 1,
                           !.last = stat,
                           !.out = Append(@, from_stats_messages(stats.last,
                                                                 stat))]
          ELSE stats' = [stats EXCEPT !.taken = @ + 1, !.last = stat,
                                      !.woken = FALSE]
     ELSE IF stats.closed
     THEN stats' = [stats EXCEPT !.ended = TRUE, !.woken = FALSE]
     ELSE stats' = [stats EXCEPT !.waker = TRUE, !.woken = FALSE]
  /\ StatsFrame

\* The consuming task is woken by something other than the stream's input
\* and polls the stream again.
OtherWake ==
  /\ ~stats.woken
  /\ ~stats.ended
  /\ stats' = [stats EXCEPT !.woken = TRUE]
  /\ StatsFrame

StatsNext ==
  \/ \E stat \in Stats : InputDelivers(stat)
  \/ InputEnds
  \/ PollNext
  \/ OtherWake

(***************************************************************************)
(* The drone liveness index of the controller.                             *)
(***************************************************************************)
MaxTime == 6
LivenessWindow == 5

Clusters == {"c1", "c2"}
Drones == {"d1", "d2"}
Times == 0..MaxTime
NoEntry == -1
NoDroneAvailable == "NoDroneAvailable"

\* lastHb: no heartbeat yet, a ready=false one, or the receipt time of a
\* ready=true one.
NeverHeard == -2
NotReady == -1

NoCall == [cluster |-> "-", now |-> -1, drone |-> "-"]

\* Scheduler::default(): no cluster has a map.
InitSched ==
  /\ last_status = [c \in Clusters |->
                      [known |-> FALSE, drones |-> [d \in Drones |-> NoEntry]]]
  /\ lastHb = [c \in Clusters |-> [d \in Drones |-> NeverHeard]]
  /\ result = NoCall
  /\ start = last_status
  /\ trail = <<>>

\* update_status that leaves the entry of a drone that is not ready.
update_status_keep(ls, timestamp, c, d, ready) ==
  [ls EXCEPT ![c] =
     [known |-> TRUE,
      drones |-> [ls[c].drones EXCEPT ![d] =
                    IF ready THEN timestamp ELSE @]]]

\* update_status that empties the cluster's map when a drone is not ready.
update_status_clear(ls, timestamp, c, d, ready) ==
  [ls EXCEPT ![c] =
     [known |-> TRUE,
      drones |-> IF ready THEN [ls[c].drones EXCEPT ![d] = timestamp]
                 ELSE [e \in Drones |-> NoEntry]]]

\* update_status that keeps the later of the stored and the new timestamp.
update_status_max(ls, timestamp, c, d, ready) ==
  [ls EXCEPT ![c] =
     [known |-> TRUE,
      drones |-> [ls[c].drones EXCEPT ![d] =
                    IF ~ready THEN NoEntry
                    ELSE IF @ > timestamp THEN @ ELSE timestamp]]]

\* Scheduler::update_status on an index ls: entry(cluster).or_default(),
\* then insert or remove.
update_status(ls, timestamp, c, d, ready) ==
  [ls EXCEPT ![c] =
     [known |-> TRUE,
      drones |-> [ls[c].drones EXCEPT ![d] =
                    IF ready THEN timestamp ELSE NoEntry]]]

\* A heartbeat is received at time ts.
UpdateStatus(ts, c, d, ready) ==
  /\ last_status' = update_status(last_status, ts, c, d, ready)
  /\ lastHb' = [lastHb EXCEPT ![c][d] = IF ready THEN ts ELSE NotReady]
  /\ result' = NoCall
  /\ UNCHANGED execVars

\* drone_ids with >= in the filter: an entry exactly 5 s old is live.
drone_ids_ge(ls, c, now) ==
  LET threshold_time == now - LivenessWindow IN
  IF ~ls[c].known THEN {}
  ELSE {d \in Drones :
          ls[c].drones[d] # NoEntry /\ ls[c].drones[d] >= threshold_time}

\* Scheduler::schedule, lines 51-69: the live candidates of a cluster.
drone_ids(ls, c, now) ==
  LET threshold_time == now - LivenessWindow IN
  IF ~ls[c].known THEN {}
  ELSE {d \in Drones :
          ls[c].drones[d] # NoEntry /\ ls[c].drones[d] > threshold_time}

\* Scheduler::schedule: the results the random choice can give.
schedule(ls, c, now) ==
  IF drone_ids(ls, c, now) = {} THEN {NoDroneAvailable}
  ELSE drone_ids(ls, c, now)

\* A schedule that also deletes the expired entries of the cluster.
ScheduleEvicting(c, now) ==
  /\ \E r \in schedule(last_status, c, now) :
       result' = [cluster |-> c, now |-> now, drone |-> r]
  /\ last_status' =
       [last_status EXCEPT ![c].drones =
          [d \in Drones |-> IF d \in drone_ids(last_status, c, now)
                            THEN last_status[c].drones[d] ELSE NoEntry]]
  /\ UNCHANGED <<lastHb, pairVars, execVars, rpcVars>>

\* A call schedule(c, now).
Schedule(c, now) ==
  /\ \E r \in schedule(last_status, c, now) :
       result' = [cluster |-> c, now |-> now, drone |-> r]
  /\ UNCHANGED <<indexVars, pairVars, execVars, rpcVars>>

\* A heartbeat of any drone of any cluster arrives.
Heartbeat ==
  /\ \E ts \in Times, c \in Clusters, d \in Drones, ready \in BOOLEAN :
       UpdateStatus(ts, c, d, ready)
  /\ UNCHANGED <<rpcVars, pairVars>>

SchedNext ==
  \/ Heartbeat
  \/ \E c \in Clusters, now \in Times : Schedule(c, now)

(***************************************************************************)
(* Sequences of heartbeats on an index: some heartbeats build an index,    *)
(* then up to MaxTrail heartbeats are followed one by one.                 *)
(***************************************************************************)
MaxTrail == 2

\* Receipt times of the heartbeats that build the starting index, and of
\* the heartbeats that are followed.
StartTimes == {0}
PairTimes == {MaxTime - 1, MaxTime}

\* A heartbeat that builds the starting index.
StartHeartbeat ==
  /\ trail = <<>>
  /\ \E ts \in StartTimes, c \in Clusters, d \in Drones, ready \in BOOLEAN :
       UpdateStatus(ts, c, d, ready)
  /\ start' = last_status'
  /\ UNCHANGED <<rpcVars, trail>>

\* A followed heartbeat: update_status, with the call recorded.
PairHeartbeat(ts, c, d, ready) ==
  /\ Len(trail) < MaxTrail
  /\ UpdateStatus(ts, c, d, ready)
  /\ UNCHANGED start
  /\ trail' = Append(trail, [cluster |-> c, drone_id |-> d,
                             timestamp |-> ts, ready |-> ready])
  /\ UNCHANGED rpcVars

PairNext ==
  \/ StartHeartbeat
  \/ \E ts \in PairTimes, c \in Clusters, d \in Drones, ready \in BOOLEAN :
       PairHeartbeat(ts, c, d, ready)

(***************************************************************************)
(* The schedule request handler of the controller.                         *)
(***************************************************************************)
MaxRequests == 2

Requests == 1..MaxRequests
NoId == "none"
NoReq == [cluster |-> "-", backend_id |-> NoId, max_idle_secs |-> 0,
          metadata |-> "-", executable |-> "-",
          require_bearer_token |-> FALSE]

\* The schedule request number r for a cluster: odd requests name their
\* backend and ask for a bearer token, even ones do neither.
ScheduleRequest(r, c) ==
  [cluster |-> c,
   backend_id |-> IF r % 2 = 1 THEN "named" ELSE NoId,
   max_idle_secs |-> 10,
   metadata |-> "foo=bar",
   executable |-> "test-image",
   require_bearer_token |-> (r % 2 = 1)]

\* BackendId::new_random for request r.
new_random(r) == IF r % 2 = 1 THEN "random-a" ELSE "random-b"

\* ScheduleRequest::schedule with another drone's id in the SpawnRequest.
ScheduleRequestScheduleOther(req, drone_id, random) ==
  [drone_id |-> CHOOSE d \in Drones : d # drone_id,
   backend_id |-> IF req.backend_id # NoId THEN req.backend_id ELSE random,
   max_idle_secs |-> req.max_idle_secs,
   metadata |-> req.metadata,
   executable |-> req.executable,
   bearer_token |-> NoId]

\* ScheduleRequest::schedule that issues a bearer token when one is asked
\* for.
ScheduleRequestScheduleToken(req, drone_id, random) ==
  [drone_id |-> drone_id,
   backend_id |-> IF req.backend_id # NoId THEN req.backend_id ELSE random,
   max_idle_secs |-> req.max_idle_secs,
   metadata |-> req.metadata,
   executable |-> req.executable,
   bearer_token |-> IF req.require_bearer_token THEN "token" ELSE NoId]

\* ScheduleRequest::schedule: the SpawnRequest for a drone.
ScheduleRequestSchedule(req, drone_id, random) ==
  [drone_id |-> drone_id,
   backend_id |-> IF req.backend_id # NoId THEN req.backend_id ELSE random,
   max_idle_secs |-> req.max_idle_secs,
   metadata |-> req.metadata,
   executable |-> req.executable,
   bearer_token |-> NoId]

\* ScheduleResponse
Scheduled(drone, backend_id) ==
  [kind |-> "Scheduled", drone |-> drone, backend_id |-> backend_id,
   bearer_token |-> NoId]
NoDroneAvailableResponse ==
  [kind |-> NoDroneAvailable, drone |-> "-", backend_id |-> NoId,
   bearer_token |-> NoId]

NoSpawn == [drone_id |-> "-", backend_id |-> NoId, max_idle_secs |-> 0,
            metadata |-> "-", executable |-> "-", bearer_token |-> NoId]

InitRpc ==
  /\ rpc = [r \in Requests |->
              [pc |-> "idle", req |-> NoReq, drone |-> "-", live |-> FALSE,
               ack |-> "-"]]
  /\ spawns = <<>>
  /\ replies = [r \in Requests |-> <<>>]

\* A client publishes a schedule request on cluster.<C>.schedule.
SendRequest(r, c) ==
  /\ rpc[r].pc = "idle"
  /\ rpc' = [rpc EXCEPT ![r].pc = "sent", ![r].req = ScheduleRequest(r, c)]
  /\ UNCHANGED <<spawns, replies>>
  /\ UNCHANGED <<execVars, schedVars>>

\* The entry of d in cluster c is younger than the liveness window at now.
IsLive(c, d, now) ==
  /\ last_status[c].known
  /\ last_status[c].drones[d] \in Times
  /\ now - last_status[c].drones[d] < LivenessWindow

\* Steps 1 to 3 of the handler: pick; on failure reply NoDroneAvailable,
\* else build the SpawnRequest and send it on the drone's spawn subject.
HandleRequest(r, now) ==
  /\ rpc[r].pc = "sent"
  /\ \E d \in schedule(last_status, rpc[r].req.cluster, now) :
       IF d = NoDroneAvailable
       THEN /\ rpc' = [rpc EXCEPT ![r].pc = "replied", ![r].ack = "nopick"]
            /\ replies' = [replies EXCEPT
                             ![r] = Append(@, NoDroneAvailableResponse)]
            /\ UNCHANGED spawns
       ELSE /\ rpc' = [rpc EXCEPT ![r].pc = "awaiting", ![r].drone = d,
                         ![r].live = IsLive(rpc[r].req.cluster, d, now)]
            /\ spawns' = Append(spawns,
                 [req_no |-> r,
                  subject |-> <<rpc[r].req.cluster, d>>,
                  msg |-> ScheduleRequestSchedule(rpc[r].req, d,
                                                  new_random(r))])
            /\ UNCHANGED replies
  /\ UNCHANGED <<execVars, schedVars>>

\* The SpawnRequest the scheduler sent for request r.
SpawnOf(r) ==
  IF \E i \in 1..Len(spawns) : spawns[i].req_no = r
  THEN spawns[CHOOSE i \in 1..Len(spawns) : spawns[i].req_no = r].msg
  ELSE NoSpawn

\* Step 4: the drone acks true: reply Scheduled.
AckTrue(r) ==
  /\ rpc[r].pc = "awaiting"
  /\ rpc' = [rpc EXCEPT ![r].pc = "replied", ![r].ack = "true"]
  /\ replies' = [replies EXCEPT ![r] =
                   Append(@, Scheduled(SpawnOf(r).drone_id,
                                       SpawnOf(r).backend_id))]
  /\ UNCHANGED spawns
  /\ UNCHANGED <<execVars, schedVars>>

\* Step 4 with a retry: after a negative ack the request is sent to a drone
\* again.
AckFalseRetry(r) ==
  /\ rpc[r].pc = "awaiting"
  /\ spawns' = Append(spawns,
       [req_no |-> r, subject |-> <<rpc[r].req.cluster, rpc[r].drone>>,
        msg |-> SpawnOf(r)])
  /\ UNCHANGED <<rpc, replies>>
  /\ UNCHANGED <<execVars, schedVars>>

\* Step 4: the drone acks false: reply NoDroneAvailable, no second drone.
AckFalse(r) ==
  /\ rpc[r].pc = "awaiting"
  /\ rpc' = [rpc EXCEPT ![r].pc = "replied", ![r].ack = "false"]
  /\ replies' = [replies EXCEPT ![r] = Append(@, NoDroneAvailableResponse)]
  /\ UNCHANGED spawns
  /\ UNCHANGED <<execVars, schedVars>>

\* Step 4 on a timeout that gives the request up without a reply.
AckTimeoutSilent(r) ==
  /\ rpc[r].pc = "awaiting"
  /\ rpc' = [rpc EXCEPT ![r].pc = "replied", ![r].ack = "timeout"]
  /\ UNCHANGED <<spawns, replies>>
  /\ UNCHANGED <<execVars, schedVars>>

\* Step 4: no ack within the timeout: reply NoDroneAvailable.
AckTimeout(r) ==
  /\ rpc[r].pc = "awaiting"
  /\ rpc' = [rpc EXCEPT ![r].pc = "replied", ![r].ack = "timeout"]
  /\ replies' = [replies EXCEPT ![r] = Append(@, NoDroneAvailableResponse)]
  /\ UNCHANGED spawns
  /\ UNCHANGED <<execVars, schedVars>>

\* The heartbeats the handler's index receives: those of one cluster; the
\* other cluster is one the controller has never seen.
HeartbeatClusters == {"c1"}

RpcHeartbeat ==
  /\ \E ts \in Times, c \in HeartbeatClusters, d \in Drones, ready \in BOOLEAN :
       UpdateStatus(ts, c, d, ready)
  /\ UNCHANGED <<rpcVars, pairVars>>

\* What the scheduler does for a request it has received.
RpcStep(r) ==
  \/ \E now \in Times : HandleRequest(r, now)
  \/ AckTrue(r)
  \/ AckFalse(r)
  \/ AckTimeout(r)

RpcNext ==
  \/ RpcHeartbeat
  \/ \E r \in Requests, c \in Clusters : SendRequest(r, c)
  \/ \E r \in Requests, now \in Times : HandleRequest(r, now)
  \/ \E r \in Requests : AckTrue(r)
  \/ \E r \in Requests : AckFalse(r)
  \/ \E r \in Requests : AckTimeout(r)

Next == ExecNext

\* One behaviour of the engine: every call succeeds, the backend runs.
PlanAllOk ==
  [Loading |-> Some("Starting"), Starting |-> Some("Ready"),
   Ready |-> Some("Swept"), stop |-> None, store |-> "ok"]

Init ==
  /\ InitExec /\ InitSched /\ InitRpc
  /\ plan = PlanAllOk
  /\ idle = IdleOff

Spec == Init /\ [][Next]_vars

\* The engine's behaviour is any one of the plans.
ResumeInit ==
  /\ InitExec /\ InitSched /\ InitRpc
  /\ plan \in Plans
  /\ idle = IdleOff

ResumeSpec == ResumeInit /\ [][ResumeNext]_vars

\* The engine's calls succeed and the writes to the local store can fail.
StoreInit ==
  /\ InitExec /\ InitSched /\ InitRpc
  /\ plan = [PlanAllOk EXCEPT !.store = "faulty"]
  /\ idle = IdleOff

StoreNext ==
  \/ \E b \in Backends : StartBackend(b)
  \/ \E t \in Tasks : RunBackendInit(t)
  \/ \E t \in Tasks : BeginStep(t)
  \/ \E t \in Tasks : StepPlanned(t)
  \/ \E t \in Tasks : RemoveListener(t)

StoreSpec == StoreInit /\ [][StoreNext]_vars

\* One Ready step at its idle loop, for any max_idle_secs.
IdleInit ==
  /\ InitExec /\ InitSched /\ InitRpc
  /\ plan = PlanAllOk
  /\ idle \in {[IdleOff EXCEPT !.pc = "read", !.max_idle = m] : m \in IdleSecs}

IdleSpec == IdleInit /\ [][IdleNext]_vars

\* The executor with an engine whose calls all return, as plan says.
LiveNext ==
  \/ \E b \in Backends : StartBackend(b)
  \/ \E t \in Tasks : RunBackendInit(t)
  \/ \E t \in Tasks : BeginStep(t)
  \/ \E t \in Tasks : StepPlanned(t)
  \/ \E t \in Tasks : RecvInterrupt(t)
  \/ \E t \in Tasks : RecvTerminate(t)
  \/ \E t \in Tasks : RecvNone(t)
  \/ \E t \in Tasks : RemoveListener(t)
  \/ \E b \in Backends : KillBackend(b)
  \/ \E t \in Tasks : KillSendCompletes(t)
  \/ \E b \in Backends : ContainerEvent(b)

LiveSpec == Init /\ [][LiveNext]_vars

\* The runtime runs every task that can go on: a task's next statement,
\* a step that returns, a signal that is received, a send that got its
\* permit.  Requests and container events come as they please.
LiveFairSpec ==
  /\ LiveSpec
  /\ \A t \in Tasks :
       /\ WF_vars(RunBackendInit(t))
       /\ WF_vars(BeginStep(t))
       /\ WF_vars(StepPlanned(t))
       /\ WF_vars(RecvInterrupt(t))
       /\ WF_vars(RecvTerminate(t))
       /\ WF_vars(RecvNone(t))
       /\ WF_vars(RemoveListener(t))
       /\ WF_vars(KillSendCompletes(t))

StatsSpec == Init /\ [][StatsNext]_vars

\* The consuming task runs whenever it is woken; nothing obliges another
\* future to wake it.
StatsFairSpec == StatsSpec /\ WF_vars(PollNext)

SchedSpec == Init /\ [][SchedNext]_vars

PairSpec == Init /\ [][PairNext]_vars

RpcSpec == Init /\ [][RpcNext]_vars

\* The scheduler runs every handler it has started, and its timeout fires.
RpcFairSpec ==
  RpcSpec /\ \A r \in Requests : WF_vars(RpcStep(r))

(***************************************************************************)
(* Properties of the executor.                                             *)
(***************************************************************************)
RECURSIVE Count(_, _)
Count(seq, x) ==
  IF seq = <<>> THEN 0
  ELSE (IF Head(seq) = x THEN 1 ELSE 0) + Count(Tail(seq), x)

\* The state machine graph: the table's edges, the Loading error edge, and
\* Terminated from every non-terminal state.
GraphEdges ==
  {<<"Loading", "Starting">>, <<"Starting", "Ready">>,
   <<"Starting", "ErrorStarting">>, <<"Ready", "Failed">>,
   <<"Ready", "Exited">>, <<"Ready", "Swept">>,
   <<"Loading", "ErrorLoading">>}
  \cup {<<s, "Terminated">> : s \in BackendState \ Terminal}

\* C1: the states a backend task publishes, from the Loading of
\* start_backend on, form a path of the state machine graph; in particular
\* nothing is published after a terminal state.
C1_PublishedPathInGraph ==
  \A t \in Tasks :
    /\ pubs[t] # <<>> => pubs[t][1] = "Loading"
    /\ \A i \in 1..(Len(pubs[t]) - 1) :
         <<pubs[t][i], pubs[t][i + 1]>> \in GraphEdges

\* C2: within one run of a backend task no state, Terminated included, is
\* published twice.
C2_NoStatePublishedTwice ==
  \A t \in Tasks : \A s \in BackendState : Count(pubs[t], s) <= 1

\* The task received its first Terminate in a non-terminal state, so every
\* engine.stop call it made came after Terminated was published.
TerminatedFromLive(t) ==
  /\ termRecv[t] >= 1
  /\ \A i \in 1..Len(pubs[t]) :
       pubs[t][i] \in Terminal => pubs[t][i] = "Terminated"

\* C5: once the run loop has received Terminate, Terminated is published
\* and engine.stop is called exactly once: never a second time, and once
\* when the task has ended.
C5_StopCalledOnceAfterTerminate ==
  \A t \in Tasks :
    TerminatedFromLive(t) =>
      /\ Count(pubs[t], "Terminated") >= 1
      /\ stopCalls[t] <= 1
      /\ pc[t] = "done" => stopCalls[t] = 1

Stepping(b) == {t \in Tasks : bk[t] = b /\ pc[t] = "stepping"}

\* C6: at most one task steps a backend id at any time, and the entries of
\* a backend in the listener map and the monitor map are removed only by
\* the task that owns them.
C6_SingleOwnerPerBackend ==
  [][ /\ \A b \in Backends : Cardinality(Stepping(b))' <= 1
      /\ \A b \in Backends :
           /\ (listener[b] # NoTask /\ listener'[b] = NoTask)
                => pc'[listener[b]] = "done"
           /\ (monitor[b] # NoTask /\ monitor'[b] = NoTask)
                => pc'[monitor[b]] \in {"rm_listener", "done"}
                   /\ pc[monitor[b]] \notin {"rm_listener", "done"} ]_vars

\* C10 as stated: every kill_backend that returned Ok is followed by the run
\* loop receiving its Terminate; so a task that has ended has received as
\* many Terminates as kill_backend calls returned Ok on its channel.
C10_EveryOkKillReceived ==
  \A t \in Tasks : pc[t] = "done" => termRecv[t] = killOk[t]

\* C10 amended: a kill_backend that returned Ok has put its Terminate into
\* the channel of the backend's task; each one is either received by the
\* run loop, which then publishes Terminated, or still in the slot.
C10_OkKillIsInChannelOrReceived ==
  \A t \in Tasks :
    /\ killOk[t] = termRecv[t] + (IF chan[t] = "Terminate" THEN 1 ELSE 0)
    /\ termRecv[t] = Count(pubs[t], "Terminated")

\* A task that ended in Swept with an accepted Terminate left in its slot.
C10_Witness ==
  \E t \in Tasks :
    /\ pc[t] = "done" /\ state[t] = "Swept"
    /\ killOk[t] = 1 /\ termRecv[t] = 0 /\ chan[t] = "Terminate"
(***************************************************************************)
(* Properties of the liveness index.                                       *)
(***************************************************************************)
\* C3: a drone returned by schedule(cluster, now) had ready=true in the
\* last heartbeat received for (cluster, drone), received less than 5 s
\* before now; a drone whose last heartbeat was ready=false is not returned.
C3_ScheduledDroneWasLastReady ==
  result # NoCall /\ result.drone \in Drones =>
    LET hb == lastHb[result.cluster][result.drone] IN
      /\ hb \notin {NeverHeard, NotReady}
      /\ result.now - hb < 5

\* A drone is returned while the other drone of the cluster, whose last
\* heartbeat was ready=false, is not.
C3_Witness ==
  /\ result # NoCall
  /\ result.drone \in Drones
  /\ \E d \in Drones \ {result.drone} : lastHb[result.cluster][d] = NotReady

\* The entries of a cluster that are younger than 5 s at time now.
LiveEntries(c, now) ==
  {d \in Drones :
     /\ last_status[c].known
     /\ last_status[c].drones[d] \in Times
     /\ now - last_status[c].drones[d] <= 4}

\* C4: schedule(cluster, now) returns a drone only if the cluster's map
\* stores it with a timestamp strictly greater than now - 5 s, and returns
\* NoDroneAvailable exactly when no entry of the cluster is that young.
C4_ScheduleIsReferencePick ==
  result # NoCall =>
    /\ result.drone \in Drones =>
         result.drone \in LiveEntries(result.cluster, result.now)
    /\ result.drone = NoDroneAvailable <=>
         LiveEntries(result.cluster, result.now) = {}

\* NoDroneAvailable is returned although the cluster stores an entry that
\* is exactly 5 s old.
C4_Witness ==
  /\ result # NoCall
  /\ result.drone = NoDroneAvailable
  /\ \E d \in Drones :
       last_status[result.cluster].drones[d] = result.now - 5
(***************************************************************************)
(* Properties of the schedule request handler.                             *)
(***************************************************************************)
SpawnsFor(r) == {i \in 1..Len(spawns) : spawns[i].req_no = r}

\* C7: a Scheduled reply is sent only after a SpawnRequest naming the
\* picked live drone was sent on that drone's spawn subject and acked true,
\* and it carries that SpawnRequest's drone and backend_id; after a negative
\* ack or a timeout the reply is NoDroneAvailable.
C7_ScheduledOnlyAfterPositiveAck ==
  \A r \in Requests :
    /\ \A k \in 1..Len(replies[r]) :
         replies[r][k].kind = "Scheduled" =>
           /\ rpc[r].ack = "true"
           /\ rpc[r].live
           /\ \E i \in SpawnsFor(r) :
                /\ spawns[i].msg.drone_id = rpc[r].drone
                /\ spawns[i].subject = <<rpc[r].req.cluster, rpc[r].drone>>
                /\ replies[r][k].drone = spawns[i].msg.drone_id
                /\ replies[r][k].backend_id = spawns[i].msg.backend_id
    /\ rpc[r].ack \in {"false", "timeout"} =>
         replies[r] = <<NoDroneAvailableResponse>>

\* One request was answered Scheduled after an ack, another one
\* NoDroneAvailable after a timeout.
C7_Witness ==
  \E r, q \in Requests :
    /\ rpc[r].ack = "true" /\ replies[r] # <<>>
    /\ replies[r][1].kind = "Scheduled"
    /\ rpc[q].ack = "timeout" /\ replies[q] = <<NoDroneAvailableResponse>>

\* C8: the scheduler sends at most one SpawnRequest per schedule request,
\* none when the pick fails, and exactly one for every Scheduled reply.
C8_AtMostOneSpawnPerRequest ==
  \A r \in Requests :
    /\ Cardinality(SpawnsFor(r)) <= 1
    /\ rpc[r].ack = "nopick" => SpawnsFor(r) = {}
    /\ \A k \in 1..Len(replies[r]) :
         replies[r][k].kind = "Scheduled" => Cardinality(SpawnsFor(r)) = 1

\* Two requests picked the same drone; one was answered Scheduled, the
\* other got a negative ack, and each has its one SpawnRequest.
C8_Witness ==
  \E r, q \in Requests :
    /\ r # q
    /\ rpc[r].ack = "true" /\ rpc[q].ack = "false"
    /\ rpc[r].drone = rpc[q].drone
    /\ Cardinality(SpawnsFor(r)) = 1 /\ Cardinality(SpawnsFor(q)) = 1

\* C9: every schedule request gets exactly one reply: never two, and one
\* eventually.
C9_ExactlyOneReply ==
  \A r \in Requests :
    /\ [](Len(replies[r]) <= 1)
    /\ [](rpc[r].pc # "idle" => <>(Len(replies[r]) = 1))

\* Both requests are answered, one of them after its drone never acked.
C9_Witness ==
  /\ \A r \in Requests : rpc[r].pc = "replied" /\ Len(replies[r]) = 1
  /\ \E r \in Requests : rpc[r].ack = "timeout"
  /\ \E r \in Requests : rpc[r].ack = "nopick"
(***************************************************************************)
(* Properties of the end of a backend task.                                *)
(***************************************************************************)
\* The task has left the loop of run_backend by a break.
LeftLoop(t) == pc[t] \in {"rm_listener", "done"}

\* C11: a backend task ends only by losing its signal sender or in a
\* terminal state for which it has called engine.stop; in particular a
\* backend that became ErrorLoading gets an engine.stop call.
C11_EndsOnlyTerminalAndStopped ==
  \A t \in Tasks :
    LeftLoop(t) => state[t] \in Terminal /\ stopCalls[t] >= 1

\* C16: backend_to_monitor holds an entry of a backend only while the state
\* of the task that installed it is Starting or Ready, and no entry
\* survives the end of that task.
C16_MonitorOnlyWhileRunning ==
  \A b \in Backends :
    monitor[b] # NoTask =>
      /\ running(state[monitor[b]])
      /\ pc[monitor[b]] \notin {"rm_listener", "done", "lost"}

\* The task has ended: by the cleanup of run_backend or by a lost sender.
Ended(t) == pc[t] \in {"done", "lost"}

\* C17: once a task of a backend has ended and no task of that backend is
\* running, neither map holds the backend.
C17_MapsEmptyAfterTaskEnd ==
  \A b \in Backends :
    ( /\ \E t \in Tasks : bk[t] = b /\ Ended(t)
      /\ \A t \in Tasks : bk[t] = b => Ended(t) )
    => listener[b] = NoTask /\ monitor[b] = NoTask
(***************************************************************************)
(* Properties of heartbeat sequences on the index.                         *)
(***************************************************************************)
\* The followed heartbeats are ready=true then ready=false of one pair
\* (c, d) whose drone was absent from the starting index.
ReadyThenNotReady(c, d) ==
  /\ Len(trail) = 2
  /\ trail[1].cluster = c /\ trail[1].drone_id = d /\ trail[1].ready
  /\ trail[2].cluster = c /\ trail[2].drone_id = d /\ ~trail[2].ready
  /\ start[c].drones[d] = NoEntry

\* C12 as stated: ready=true then ready=false for an absent drone gives
\* back the starting index, also when the cluster had never been seen.
C12_ReadyThenNotReadyRestoresIndex ==
  \A c \in Clusters, d \in Drones :
    ReadyThenNotReady(c, d) => last_status = start

\* C12 amended: ready=true then ready=false for an absent drone gives back
\* the drone entries of every cluster and the results of every schedule
\* call; the cluster keeps the map the first heartbeat created, so the
\* index is the starting one only if the cluster already had a map.
C12_ReadyThenNotReadyRestoresEntries ==
  \A c \in Clusters, d \in Drones :
    ReadyThenNotReady(c, d) =>
      /\ \A k \in Clusters : last_status[k].drones = start[k].drones
      /\ \A k \in Clusters \ {c} : last_status[k] = start[k]
      /\ last_status[c].known
      /\ start[c].known => last_status = start
      /\ \A k \in Clusters, now \in Times :
           schedule(last_status, k, now) = schedule(start, k, now)

\* The two heartbeats were received for a cluster never seen before, while
\* the other drone of another cluster has an entry.
C12_Witness ==
  \E c \in Clusters, d \in Drones :
    /\ ReadyThenNotReady(c, d)
    /\ ~start[c].known
    /\ \E k \in Clusters \ {c}, e \in Drones : start[k].drones[e] # NoEntry

\* The followed heartbeats of a pair, in order of receipt.
HeartbeatsOf(c, d) ==
  SelectSeq(trail, LAMBDA h : h.cluster = c /\ h.drone_id = d)

\* C13: the entry of a pair is determined by the last heartbeat received
\* for the pair: its receipt time if it had ready=true, also when an earlier
\* one was later, absent if it had ready=false; heartbeats of other pairs
\* leave the entry as it was.
C13_LastHeartbeatWins ==
  \A c \in Clusters, d \in Drones :
    LET hs == HeartbeatsOf(c, d) IN
      last_status[c].drones[d] =
        IF hs = <<>> THEN start[c].drones[d]
        ELSE IF hs[Len(hs)].ready THEN hs[Len(hs)].timestamp
        ELSE NoEntry

\* A ready=true heartbeat replaced the later timestamp of an earlier one,
\* and an entry of another pair is still the starting one.
C13_Witness ==
  \E c \in Clusters, d \in Drones :
    /\ Len(trail) = 2
    /\ HeartbeatsOf(c, d) = trail
    /\ trail[1].ready /\ trail[2].ready
    /\ trail[2].timestamp < trail[1].timestamp
    /\ last_status[c].drones[d] = trail[2].timestamp
    /\ \E k \in Clusters, e \in Drones :
         <<k, e>> # <<c, d>> /\ start[k].drones[e] # NoEntry
\* C19: a kill_backend call for a backend without an entry in the listener
\* map returns the 'Unknown backend' error (and only such a call does),
\* sends no signal and changes no task, no map entry and no stored state.
C19_UnknownBackendChangesNothing ==
  [][ kills' # kills =>
        LET b == lastKill'.backend IN
          /\ lastKill'.result = "Unknown" <=> listener[b] = NoTask
          /\ listener[b] = NoTask =>
               UNCHANGED <<pc, bk, state, chan, blocked, listener, monitor,
                           db, pubs, stopCalls, killOk, termRecv>> ]_vars

\* kill_backend answered 'Unknown backend' for a backend whose task has
\* already ended, while the task of the other backend is running.
C19_Witness ==
  /\ lastKill.result = "Unknown"
  /\ \E t \in Tasks : bk[t] = lastKill.backend /\ pc[t] = "done"
  /\ \E t \in Tasks :
       /\ bk[t] \in Backends \ {lastKill.backend}
       /\ listener[bk[t]] = t
(***************************************************************************)
(* Properties of resume_backends.                                          *)
(***************************************************************************)
\* An uninterrupted run of the loop of run_backend entered in state s, with
\* the engine behaving as plan p: the states it publishes, and its
\* engine.stop and engine.load calls.
RECURSIVE RunPubs(_, _)
RunPubs(s, p) ==
  LET r == PlanResult(p, s) IN
    CASE r.kind = "some" -> <<r.st>> \o RunPubs(r.st, p)
      [] r.kind = "none" -> <<>>
      [] OTHER -> IF s = "Loading" THEN <<"ErrorLoading">> ELSE <<>>

RECURSIVE RunStops(_, _)
RunStops(s, p) ==
  LET r == PlanResult(p, s) IN
    IF r.kind = "some" THEN RunStops(r.st, p)
    ELSE IF s \in Terminal THEN 1 ELSE 0

RunLoads(s) == IF s = "Loading" THEN 1 ELSE 0

\* What is left of the run of task t from where it is now.
RestPubs(t) ==
  IF LeftLoop(t) THEN <<>> ELSE RunPubs(state[t], plan)
RestStops(t) ==
  IF LeftLoop(t) THEN 0
  ELSE IF pc[t] = "stepping" /\ state[t] \in Terminal THEN 0
  ELSE RunStops(state[t], plan)
RestLoads(t) ==
  IF LeftLoop(t) \/ pc[t] = "stepping" THEN 0 ELSE RunLoads(state[t])

C15_ResumeOnlyNonTerminal ==
  \A t \in Tasks :
    from[t].by = "resume_backends" =>
      /\ from[t].st \notin Terminal
      /\ (running(from[t].st) /\ \A u \in Tasks : pc[u] \in {"idle", "init"})
           => monitor[bk[t]] # NoTask

\* C18: a task that finds its signal sender dropped ends without writing
\* the store, publishing a state or calling the engine, and resume_backends
\* spawns the task of every stored backend in exactly its stored state.
C18_SenderLostKeepsStoredState ==
  [][ /\ \A t \in Tasks :
           (pc[t] # "lost" /\ pc'[t] = "lost") =>
             UNCHANGED <<db, pubs, stopCalls, loadCalls, state>>
      /\ restarts' # restarts =>
           \A b \in Backends :
             db[b] # "none" =>
               /\ db'[b] = db[b]
               /\ \E t \in Tasks :
                    bk'[t] = b /\ pc'[t] = "init" /\ state'[t] = db[b] ]_vars

\* A task resumed for a backend of which a task had lost its sender has
\* gone on from the stored state.
C18_Witness ==
  \E t \in Tasks :
    /\ from[t].by = "resume_backends" /\ from[t].after_lost
    /\ from[t].st = "Ready"
    /\ pc[t] = "stepping"
(***************************************************************************)
(* Properties of ScheduleRequest::schedule.                                *)
(***************************************************************************)
\* Schedule requests with and without a backend id and a bearer token wish.
ScheduleRequests ==
  [cluster : Clusters, backend_id : {"named", NoId},
   max_idle_secs : {0, 10}, metadata : {"foo=bar", "-"},
   executable : {"test-image"}, require_bearer_token : BOOLEAN]

\* m is the SpawnRequest of request req for drone d, random being the id
\* generated when the request names none.
IsSpawnRequestOf(m, req, d, random) ==
  /\ m.drone_id = d
  /\ req.backend_id # NoId => m.backend_id = req.backend_id
  /\ req.backend_id = NoId => m.backend_id = random
  /\ m.max_idle_secs = req.max_idle_secs
  /\ m.metadata = req.metadata
  /\ m.executable = req.executable
  /\ m.bearer_token = NoId

\* C20: ScheduleRequest::schedule(drone) yields a SpawnRequest for that
\* drone with the request's backend id, or a generated one if it has none,
\* with max_idle_secs, metadata and executable copied and no bearer token,
\* whether or not one was required: for every request, and for every
\* SpawnRequest the scheduler has sent.
C20_ScheduleBuildsSpawnRequest ==
  /\ \A req \in ScheduleRequests, d \in Drones, random \in {"random-a"} :
       IsSpawnRequestOf(ScheduleRequestSchedule(req, d, random),
                        req, d, random)
  /\ \A i \in 1..Len(spawns) :
       LET r == spawns[i].req_no IN
         IsSpawnRequestOf(spawns[i].msg, rpc[r].req, rpc[r].drone,
                          new_random(r))

\* The scheduler has sent the SpawnRequest of a request that names its
\* backend and requires a bearer token, and that of one that does neither.
C20_Witness ==
  \E i, j \in 1..Len(spawns) :
    /\ rpc[spawns[i].req_no].req.require_bearer_token
    /\ spawns[i].msg.backend_id = "named"
    /\ spawns[i].msg.bearer_token = NoId
    /\ ~rpc[spawns[j].req_no].req.require_bearer_token
    /\ spawns[j].msg.backend_id = new_random(spawns[j].req_no)
(***************************************************************************)
(* Properties of step and of the run loop.                                 *)
(***************************************************************************)
\* The table of section 4.5: the next state for a state and the engine's
\* status, when every call of the step succeeds.
TableStep(s, status) ==
  CASE s = "Loading" -> Some("Starting")
    [] s = "Starting" ->
         IF status = "Running" THEN Some("Ready") ELSE Some("ErrorStarting")
    [] s = "Ready" ->
         CASE status = "Failed" -> Some("Failed")
           [] status = "Exited" -> Some("Exited")
           [] OTHER -> Some("Swept")
    [] OTHER -> None

\* No call that the step makes for state s fails under the answers e.
NoCallFails(s, e) ==
  CASE s = "Loading" -> e.load = "ok"
    [] s = "Starting" ->
         /\ e.status # "err"
         /\ e.status = "Running" => e.port = "ok" /\ e.route = "ok"
    [] s = "Ready" ->
         /\ e.status # "err"
         /\ e.status \notin {"Failed", "Exited", "Terminated"} =>
              e.idle = "elapsed"
    [] OTHER -> e.stop = "ok"

TableEdges ==
  {<<"Loading", "Starting">>, <<"Starting", "Ready">>,
   <<"Starting", "ErrorStarting">>, <<"Ready", "Failed">>,
   <<"Ready", "Exited">>, <<"Ready", "Swept">>}

\* step agrees with the table on all states and answers.
StepIsTableStep ==
  \A s \in BackendState, e \in EngineAnswers :
    NoCallFails(s, e) => step(s, e) = TableStep(s, e.status)

\* C22: for every state and engine status step returns what the table
\* prescribes when its calls succeed, and every state a task publishes
\* after a step is the table's successor of the state before it.
C22_StepFollowsTable ==
  /\ StepIsTableStep
  /\ \A t \in Tasks : \A i \in 1..(Len(pubs[t]) - 1) :
       pubs[t][i + 1] \notin {"Terminated", "ErrorLoading"} =>
         <<pubs[t][i], pubs[t][i + 1]>> \in TableEdges

\* A task went through Loading, Starting and Ready to Exited, called
\* engine.stop and ended.
C22_Witness ==
  \E t \in Tasks :
    /\ pubs[t] = <<"Loading", "Starting", "Ready", "Exited">>
    /\ stopCalls[t] = 1
    /\ pc[t] = "done"
\* C23: a step error in Loading persists and publishes ErrorLoading, once;
\* a step error in any other state persists and publishes nothing; either
\* way the task leaves the loop and removes the backend from both maps.
C23_ErrorPolicy ==
  [][ \A t \in Tasks :
        /\ (pc[t] = "stepping" /\ pc'[t] = "rm_listener") =>
             /\ state[t] = "Loading" =>
                  /\ state'[t] = "ErrorLoading"
                  /\ pubs'[t] = Append(pubs[t], "ErrorLoading")
                  /\ db'[bk[t]] = "ErrorLoading"
                  /\ Count(pubs'[t], "ErrorLoading") = 1
             /\ state[t] # "Loading" =>
                  UNCHANGED <<state, pubs, db>>
             /\ monitor'[bk[t]] = NoTask
        /\ (pc[t] = "stepping" /\ state[t] \notin Terminal
              /\ pc'[t] \notin {"stepping", "rm_listener", "lost"}) =>
             pubs'[t] # pubs[t] \/ chan'[t] # chan[t]
        /\ (pc[t] = "rm_listener" /\ pc'[t] # "rm_listener") =>
             pc'[t] = "done" /\ listener'[bk[t]] = NoTask ]_vars

\* One task ended after a step error in Ready without a transition, the
\* other after a load error with ErrorLoading published.
C23_Witness ==
  \E t, u \in Tasks :
    /\ pc[t] = "done" /\ state[t] = "Ready"
    /\ pubs[t] = <<"Loading", "Starting", "Ready">>
    /\ pc[u] = "done" /\ pubs[u] = <<"Loading", "ErrorLoading">>
    /\ listener[bk[t]] = NoTask /\ monitor[bk[t]] = NoTask

\* C24: while a task is in Swept no signal is taken from its channel, its
\* step is not restarted, engine.stop is invoked once, and Swept stays
\* the last state it published.
C24_SweptIsUninterruptible ==
  [][ \A t \in Tasks :
        /\ (state[t] = "Swept" /\ bk'[t] = bk[t]) =>
             /\ state'[t] = "Swept"
             /\ pubs'[t] = pubs[t]
             /\ termRecv'[t] = termRecv[t]
             /\ chan[t] # "Empty" => chan'[t] = chan[t]
             /\ pc[t] = "stepping" => pc'[t] \in {"stepping", "rm_listener"}
             /\ stopCalls'[t] <= 1
             /\ pc'[t] \in {"stepping", "rm_listener", "done"} =>
                  stopCalls'[t] = 1
        /\ state'[t] = "Swept" /\ pubs'[t] # <<>> =>
             pubs'[t][Len(pubs'[t])] = "Swept" ]_vars

\* A task ended in Swept after one engine.stop call while an Interrupt sent
\* during the stop is still in its channel.
C24_Witness ==
  \E t \in Tasks :
    /\ pc[t] = "done" /\ state[t] = "Swept"
    /\ chan[t] = "Interrupt"
    /\ stopCalls[t] = 1

\* step never yields Terminated.
StepNeverTerminated ==
  \A s \in BackendState, e \in EngineAnswers :
    step(s, e) # Some("Terminated")

\* C25: Terminated is published exactly when the run loop receives a
\* Terminate, which it does only outside Swept and which always makes
\* Terminated the next state; step never yields Terminated, and a received
\* Interrupt changes and publishes nothing.
C25_TerminatedOnlyByTerminate ==
  [][ /\ StepNeverTerminated
      /\ \A t \in Tasks :
           /\ Count(pubs'[t], "Terminated") = termRecv'[t]
           /\ termRecv'[t] # termRecv[t] =>
                /\ state[t] # "Swept"
                /\ chan[t] = "Terminate"
                /\ state'[t] = "Terminated"
                /\ pubs'[t] = Append(pubs[t], "Terminated")
           /\ (chan[t] = "Interrupt" /\ chan'[t] = "Empty") =>
                /\ UNCHANGED <<state, pubs, db>>
                /\ pc'[t] = "loop" ]_vars

\* A Ready backend whose loop first received an Interrupt and then a
\* Terminate has published Terminated once.
C25_Witness ==
  \E t \in Tasks :
    /\ interrupts = 1 /\ chan[t] = "Empty" /\ termRecv[t] = 1
    /\ pubs[t] = <<"Loading", "Starting", "Ready", "Terminated">>

\* C27: from the moment Loading of a backend is published until its task
\* ends, kill_backend for it is not answered 'Unknown backend'.
C27_SenderAvailableOnceLoadingPublished ==
  [][ kills' # kills =>
        ( (\E t \in Tasks : /\ bk[t] = lastKill'.backend
                            /\ pubs[t] # <<>>
                            /\ ~Ended(t))
          => lastKill'.result # "Unknown" ) ]_vars
\* The entry a drone's last heartbeat leaves in the index.
EntryOf(hb) == IF hb \in {NeverHeard, NotReady} THEN NoEntry ELSE hb

\* C30: a schedule call leaves every cluster map and every entry of the
\* index as it was, expired entries included; an entry changes only in a
\* heartbeat step of its own (cluster, drone), to what that heartbeat says.
C30_ScheduleLeavesIndex ==
  [][ /\ result' # NoCall => last_status' = last_status
      /\ \A c \in Clusters :
           /\ last_status'[c].known # last_status[c].known =>
                result' = NoCall
           /\ \A d \in Drones :
                /\ last_status'[c].drones[d] # last_status[c].drones[d] =>
                     /\ result' = NoCall
                     /\ lastHb'[c][d] # lastHb[c][d]
                /\ last_status'[c].drones[d] = EntryOf(lastHb'[c][d]) ]_vars

\* A schedule call found no live drone while an entry older than the
\* window is still stored in the cluster's map.
C30_Witness ==
  /\ result # NoCall
  /\ result.drone = NoDroneAvailable
  /\ \E d \in Drones :
       /\ last_status[result.cluster].drones[d] # NoEntry
       /\ last_status[result.cluster].drones[d] < result.now - LivenessWindow
       /\ lastHb[result.cluster][d] = last_status[result.cluster].drones[d]
\* C21: whenever a state is published for a backend, the initial Loading
\* included, the local store records the backend with that state.
C21_StoredBeforePublished ==
  [][ \A t \in Tasks :
        pubs'[t] # pubs[t] /\ pubs'[t] # <<>> =>
          db'[bk'[t]] = pubs'[t][Len(pubs'[t])] ]_vars
\* A signal for task t is in its channel, or a waiting send holds the
\* permit for one.
SignalPending(t) == chan[t] # "Empty" \/ blocked[t] > 0

\* The container event for b in this step was dropped because the channel
\* of b's task had no free permit.
DroppedForFull(b) ==
  /\ ContainerEvent(b)
  /\ lastEvent' = [backend |-> b, result |-> "full"]
  /\ listener[b] # NoTask
  /\ chan' = chan

\* What a container event does to the channels: it returns without
\* waiting, touches no channel but that of its backend's task, puts an
\* Interrupt into a free slot and leaves a taken one as it is, and when it
\* is dropped for a full slot a signal is pending.
EventKeepsChannels(b) ==
  /\ blocked' = blocked /\ pc' = pc
  /\ \A u \in Tasks : u # listener[b] => chan'[u] = chan[u]
  /\ listener[b] # NoTask =>
       /\ chan[listener[b]] # "Empty" =>
            chan'[listener[b]] = chan[listener[b]]
       /\ HasPermit(listener[b]) => chan'[listener[b]] = "Interrupt"
  /\ lastEvent' # lastEvent =>
       listener[b] # NoTask /\ chan' = chan
  /\ DroppedForFull(b) => SignalPending(listener[b])

\* C26 as stated: a channel holds at most one signal and a container event
\* never waits; an Interrupt for a full slot or for a backend without a
\* listener is dropped and touches no other backend; when it is dropped
\* for a full slot a signal is pending, and a running step of the backend
\* is one that the signal can still restart or terminate.
C26_DroppedInterruptStillSignals ==
  [][ \A b \in Backends :
        ContainerEvent(b) =>
          /\ EventKeepsChannels(b)
          /\ (DroppedForFull(b) /\ pc[listener[b]] = "stepping") =>
               state[listener[b]] # "Swept" ]_vars

\* C26, amended: the same, but the pending signal restarts or terminates
\* the running step only outside Swept; in Swept it is never received.
C26_DroppedInterruptStillPending ==
  [][ \A b \in Backends :
        ContainerEvent(b) =>
          /\ EventKeepsChannels(b)
          /\ (DroppedForFull(b) /\ pc[listener[b]] = "stepping"
                /\ state[listener[b]] # "Swept") =>
               SignalPending(listener[b])' ]_vars

\* An Interrupt was dropped for the full slot of a task that is
\* stepping in Ready, and the Terminate in the slot is still there.
C26_Witness ==
  \E t \in Tasks :
    /\ lastEvent = [backend |-> bk[t], result |-> "full"]
    /\ kills = 1
    /\ pc[t] = "stepping" /\ state[t] = "Ready"
    /\ listener[bk[t]] = t
    /\ chan[t] = "Terminate"
\* C28: the idle loop yields Swept only at a check made at or after
\* last_active + max_idle_secs, with last_active as read for that check;
\* a check made at or after that deadline yields Swept; the loop fails
\* only when last_active + max_idle_secs overflows.
C28_SweptAtIdleDeadline ==
  /\ idle.pc = "swept" => idle.checked_at >= idle.read + idle.max_idle
  /\ idle.pc \in {"duration", "sleep"} => idle.checked_at < idle.next_check
  /\ idle.pc = "err" => idle.read + idle.max_idle > MaxInstant
\* Ready was published by task t.
PublishedReady(t) == \E i \in 1..Len(pubs[t]) : pubs[t][i] = "Ready"

\* C29: Ready is published for a backend only by a step in Starting, and
\* then the backend has a proxy route in the local store.
C29_ReadyOnlyWithRoute ==
  [][ \A t \in Tasks :
        /\ (pubs'[t] # pubs[t] /\ pubs'[t] # <<>>
              /\ pubs'[t][Len(pubs'[t])] = "Ready") =>
             /\ pc[t] = "stepping" /\ state[t] = "Starting"
             /\ bk[t] \in routes'
             /\ \E e \in EngineAnswers :
                  /\ step("Starting", e) = Some("Ready")
                  /\ e.status = "Running" /\ e.port = "ok" /\ e.route = "ok"
        /\ PublishedReady(t)' => bk'[t] \in routes'
        /\ (pc[t] = "stepping" /\ state[t] = "Starting"
              /\ bk[t] \notin routes') =>
             ~PublishedReady(t)' ]_vars

\* One backend is Ready with its route stored; the Starting step of the
\* other failed at the port wait or the route insert, and its task ended
\* with neither a route nor Ready.
C29_Witness ==
  \E t, u \in Tasks :
    /\ pubs[t] = <<"Loading", "Starting", "Ready">> /\ bk[t] \in routes
    /\ pubs[u] = <<"Loading", "Starting">> /\ pc[u] = "done"
    /\ state[u] = "Starting" /\ bk[u] \notin routes
\* The messages emitted so far are those of the successive pairs of the
\* samples taken, in order, and the output ends only after the input.
StatsPairsInOrder ==
  /\ Len(stats.out) = IF stats.taken = 0 THEN 0 ELSE stats.taken - 1
  /\ \A k \in 1..Len(stats.out) :
       stats.out[k] = from_stats_messages(stats.src[k], stats.src[k + 1])
  /\ stats.ended => stats.closed /\ stats.taken = Len(stats.src)

\* C31: for n samples exactly max(n-1, 0) messages come out, in order, the
\* k-th made of samples k and k+1; every sample after the first that the
\* input delivers eventually gives its message, and the output ends when
\* the input has ended.
C31_StatsStreamEmitsEverySample ==
  /\ []StatsPairsInOrder
  /\ \A k \in 2..MaxSamples :
       (Len(stats.src) >= k) ~> (Len(stats.out) >= k - 1)
  /\ stats.closed ~> stats.ended
\* C32: a task that has left its loop completes the removal of its backend
\* from backend_to_listener, and every kill_backend call that waits in
\* send eventually returns.
C32_KillBackendNeverDeadlocks ==
  \A t \in Tasks :
    /\ (pc[t] = "rm_listener") ~> (pc[t] = "done")
    /\ (blocked[t] > 0) ~> (blocked[t] = 0)

\* The backend of task t was started a second time.
StartedTwice(t) == \E u \in Tasks \ {t} : bk[u] = bk[t]

\* C33: every started task eventually ends with its backend absent from
\* both maps, and an Interrupt that is received restarts the step without
\* changing or publishing the state.  Backends that start_backend was
\* called for twice are left aside.
C33_StartedTaskEnds ==
  /\ \A t \in Tasks :
       (pc[t] # "idle") ~> \/ /\ Ended(t)
                              /\ listener[bk[t]] = NoTask
                              /\ monitor[bk[t]] = NoTask
                           \/ StartedTwice(t)
  /\ [][ \A t \in Tasks :
           (chan[t] = "Interrupt" /\ chan'[t] = "Empty") =>
             /\ UNCHANGED <<state, pubs, db>>
             /\ pc'[t] = "loop" ]_vars
====
